---- MODULE Spec2Model ----
(***************************************************************************)
(* Page tables of the bldb boot loader/debugger (src/mmu.rs, src/mem.rs).  *)
(*                                                                         *)
(* The radix tree is modelled with its real structure (four levels, the    *)
(* hardware entry layout, a bump arena of table pages), on an address      *)
(* space scaled down so that it can be enumerated: a table has Entries     *)
(* slots instead of 512 and the address space is HighFactor times the      *)
(* span the four levels translate instead of 2^16 times.  Addresses are    *)
(* byte addresses; arithmetic on them wraps at ADDR_SPACE as usize         *)
(* arithmetic wraps at 2^64.                                               *)
(***************************************************************************)
EXTENDS Integers, Sequences, FiniteSets, TLC

\* Slots per table: scaled stand-in of the 512 entries of a table.
Entries == 3
\* Ratio between the whole address space and the translated span (2^16).
HighFactor == 2
\* Accepted mutating calls explored after LoaderPageTable::new.
MaxMut == 2
\* Calls of a map_region / unmap_range cycle of one range that are followed.
MaxCycleCalls == 5

PAGE_SIZE == 4096
PAGE_ARENA_PAGES == 128

\* Frame::SIZE of PFN4K, PFN2M, PFN1G: one slot of a PML1, PML2, PML3.
SIZE_4K == PAGE_SIZE
SIZE_2M == SIZE_4K * Entries
SIZE_1G == SIZE_2M * Entries
\* Table::entry_stride of the PML4, and the span the four levels translate.
STRIDE_PML4 == SIZE_1G * Entries
VA_SPAN == STRIDE_PML4 * Entries
\* usize/u64 arithmetic wraps here.
ADDR_SPACE == VA_SPAN * HighFactor

wrapping_add(a, b) == (a + b) % ADDR_SPACE
\* A subtraction that stops at 0.
wrapping_sub_saturating(a, b) == IF a >= b THEN a - b ELSE 0
wrapping_sub(a, b) == (a - b + ADDR_SPACE) % ADDR_SPACE

\* mem::LOW_CANON_SUP and mem::HI_CANON_INF: the lower half ends where the
\* most significant translated bit becomes set, the upper half is the top
\* of the address space whose translated bits continue from there.
LOW_CANON_SUP == (Entries \div 2) * STRIDE_PML4
HI_CANON_INF == ADDR_SPACE - (VA_SPAN - LOW_CANON_SUP) - 1

is_canonical(va) == va <= LOW_CANON_SUP - 1 \/ HI_CANON_INF + 1 <= va

\* The physical width is kept inside the lower canonical half, as 2^46 is.
PHYS_LIMIT == LOW_CANON_SUP
is_physical(pa) == pa < PHYS_LIMIT

is_canonical_range(start, end) ==
    IF end < start /\ end # 0 THEN FALSE
    ELSE IF start < LOW_CANON_SUP /\ start <= end /\ end <= LOW_CANON_SUP THEN TRUE
    ELSE HI_CANON_INF < start /\ (HI_CANON_INF < end \/ end = 0)

\* V4KA::new and P4KA::new succeed (do not panic) exactly on these.
V4KA_ok(va) == is_canonical(va) /\ va % PAGE_SIZE = 0
P4KA_ok(pa) == is_physical(pa) /\ pa % PAGE_SIZE = 0

is_multiple_of(a, size) == a % size = 0

\* mem::round_down_4k and mem::round_up_4k
round_down_4k(va) == va - (va % PAGE_SIZE)
round_up_4k(va) == round_down_4k(wrapping_add(va, PAGE_SIZE - 1))

\* Body applied to the value of v, which is computed once (a `let` of the
\* code: the right-hand side is evaluated where it is bound).
Bind(v, Body(_)) == CHOOSE r \in {Body(x) : x \in {v}} : TRUE

(***************************************************************************)
(* mem::Attrs: the bits r, w, nc, g, k, nx of a u64.                       *)
(***************************************************************************)
AttrsEmpty == [r |-> FALSE, w |-> FALSE, nc |-> FALSE, g |-> FALSE,
               k |-> FALSE, nx |-> FALSE]
AttrsNew(r, w, x, c, k) ==
    [AttrsEmpty EXCEPT !.r = r, !.w = w, !.nx = ~x, !.nc = ~c, !.k = k]
new_text == [AttrsEmpty EXCEPT !.r = TRUE, !.nx = FALSE]
new_rodata == [AttrsEmpty EXCEPT !.r = TRUE, !.nx = TRUE]
new_data == [AttrsEmpty EXCEPT !.r = TRUE, !.w = TRUE, !.nx = TRUE]
new_mmio == [AttrsEmpty EXCEPT !.r = TRUE, !.w = TRUE, !.nx = TRUE, !.nc = TRUE]
new_kernel(r, w, x) ==
    [AttrsEmpty EXCEPT !.r = r, !.w = w, !.nx = ~x, !.k = TRUE]
new_ro == [AttrsEmpty EXCEPT !.r = TRUE]
new_rw == [AttrsEmpty EXCEPT !.r = TRUE, !.w = TRUE]
new_x == [AttrsEmpty EXCEPT !.nx = FALSE]
AttrsX(a) == ~a.nx
AttrsC(a) == ~a.nc

permits(has, wants) ==
    /\ (~wants.r \/ has.r)
    /\ (~wants.w \/ has.w)
    /\ (~wants.nx \/ has.nx)

(***************************************************************************)
(* PTE: the hardware entry.  pfn is bits 12..50; every address of the      *)
(* model is far below 2^51, so the field never truncates.                  *)
(***************************************************************************)
PTEEmpty ==
    [p |-> FALSE, w |-> FALSE, u |-> FALSE, wt |-> FALSE, nc |-> FALSE,
     a |-> FALSE, d |-> FALSE, h |-> FALSE, g |-> FALSE, i0 |-> FALSE,
     i1 |-> FALSE, k |-> FALSE, pfn |-> 0, nx |-> FALSE]

\* Bit i of the integer n.
Bit(n, i) == (n \div (2 ^ i)) % 2 = 1

\* PTE(pa): the bits of pa taken as an entry.  A page-aligned pa has its
\* low twelve bits clear.
from_phys_addr(pa) ==
    [p |-> Bit(pa, 0), w |-> Bit(pa, 1), u |-> Bit(pa, 2), wt |-> Bit(pa, 3),
     nc |-> Bit(pa, 4), a |-> Bit(pa, 5), d |-> Bit(pa, 6), h |-> Bit(pa, 7),
     g |-> Bit(pa, 8), i0 |-> Bit(pa, 9), i1 |-> Bit(pa, 10),
     k |-> Bit(pa, 11), pfn |-> pa \div PAGE_SIZE, nx |-> FALSE]
PTE_phys_addr(pte) == pte.pfn * PAGE_SIZE

\* PTE::new copying the global bit of the Attrs as well.
PTENew_with_global(pa, attrs, big) ==
    [from_phys_addr(pa) EXCEPT !.p = attrs.r, !.w = attrs.w,
        !.nx = ~AttrsX(attrs), !.wt = ~AttrsC(attrs), !.nc = ~AttrsC(attrs),
        !.k = attrs.k, !.h = big, !.g = attrs.g]

\* PTE::new::<F>(frame, attrs); big is F::BIG.
PTENew(pa, attrs, big) ==
    [from_phys_addr(pa) EXCEPT !.p = attrs.r, !.w = attrs.w,
        !.nx = ~AttrsX(attrs), !.wt = ~AttrsC(attrs), !.nc = ~AttrsC(attrs),
        !.k = attrs.k, !.h = big]

\* An interior entry with its flags and no table address.
PTENewForTable_flags_only(pa) ==
    [PTEEmpty EXCEPT !.p = TRUE, !.w = TRUE, !.u = TRUE]

\* A table entry without the user bit.
PTENewForTable_supervisor(pa) ==
    [from_phys_addr(pa) EXCEPT !.p = TRUE, !.w = TRUE, !.wt = FALSE,
                               !.nc = FALSE, !.nx = FALSE, !.u = FALSE]

\* PTE::new_for_table(table); pa is the address of the table.
PTENewForTable(pa) ==
    [from_phys_addr(pa) EXCEPT !.p = TRUE, !.w = TRUE, !.wt = FALSE,
        !.nc = FALSE, !.nx = FALSE, !.u = TRUE]

PTEAttrs(pte) == AttrsNew(pte.p, pte.w, ~pte.nx, ~pte.nc, pte.k)

(***************************************************************************)
(* The table arena (mod arena).  A memory m is the record                  *)
(*   tabs  : the table pages handed out so far, in allocation order,       *)
(*   kinds : the level (4 = PML4 .. 1 = PML1) each page was allocated as,  *)
(*   st    : "ok", or "panic" once the process has aborted.                *)
(* The arena is the static HEAP; the model places it past the scaled       *)
(* address space, so that a table page never aliases a mapped address.     *)
(***************************************************************************)
ARENA_BASE == ADDR_SPACE
PAGE_ARENA_SIZE == PAGE_ARENA_PAGES * PAGE_SIZE

ZeroTable == [i \in 0 .. Entries - 1 |-> PTEEmpty]

\* A bump allocator that hands out pages from the top of its block down.
TableAddr_downward(slot) ==
    ARENA_BASE + (PAGE_ARENA_PAGES - slot) * PAGE_SIZE

\* BumpAlloc::alloc_bytes hands out consecutive pages from the base.
TableAddr(slot) == ARENA_BASE + (slot - 1) * PAGE_SIZE
SlotOfAddr(addr) == (addr - ARENA_BASE) \div PAGE_SIZE + 1

\* BumpAlloc::addr_range().contains(addr)
InArena(addr) == ARENA_BASE <= addr /\ addr < ARENA_BASE + PAGE_ARENA_SIZE

\* TableAlloc::try_with_addr::<T>(addr)
TryWithAddr(addr) ==
    IF ~InArena(addr) THEN "PtrProvenance"
    ELSE IF addr % PAGE_SIZE # 0 THEN "PtrAlign"
    ELSE "Ok"

\* An allocation that yields no page when the arena is full, and goes on.
TableNew_no_abort(m, kind) ==
    IF Len(m.tabs) >= PAGE_ARENA_PAGES THEN m
    ELSE [m EXCEPT !.tabs = Append(m.tabs, ZeroTable),
                   !.kinds = Append(m.kinds, kind)]

\* An allocator that hands out again the page it handed out last while
\* that table holds no entry.
TableNew_reclaiming(m, kind) ==
    IF Len(m.tabs) >= 2 /\ m.tabs[Len(m.tabs)] = ZeroTable
    THEN [m EXCEPT !.kinds[Len(m.tabs)] = kind]
    ELSE IF Len(m.tabs) >= PAGE_ARENA_PAGES THEN [m EXCEPT !.st = "panic"]
    ELSE [m EXCEPT !.tabs = Append(m.tabs, ZeroTable),
                   !.kinds = Append(m.kinds, kind)]

\* Table::new / PageTable::new: Box::new_zeroed_in(TableAlloc) then leak.
\* A failed allocation aborts (handle_alloc_error).
TableNew(m, kind) ==
    IF Len(m.tabs) >= PAGE_ARENA_PAGES THEN [m EXCEPT !.st = "panic"]
    ELSE [m EXCEPT !.tabs = Append(m.tabs, ZeroTable),
                   !.kinds = Append(m.kinds, kind)]

\* Table::index for a table whose entry_stride is stride.
Index(va, stride) == (va \div stride) % Entries

EntryAt(m, slot, va, stride) == m.tabs[slot][Index(va, stride)]

\* The assignment of Table::set_entry.
SetEntry(m, slot, va, stride, pte) ==
    [m EXCEPT !.tabs[slot][Index(va, stride)] = pte]

\* InnerTable::next / next_mut on an entry: follow is entry.p() for a PML4
\* and entry.p() && !entry.h() for a PML3 and a PML2.
NextOf(m, entry, follow) ==
    IF ~follow THEN [tag |-> "None", slot |-> 0]
    ELSE LET p == PTE_phys_addr(entry) IN
         IF p = 0 \/ p % PAGE_SIZE # 0 \/ TryWithAddr(p) # "Ok"
            \/ SlotOfAddr(p) > Len(m.tabs)
         THEN [tag |-> "panic", slot |-> 0]
         ELSE [tag |-> "Some", slot |-> SlotOfAddr(p)]

PML4_next(m, slot, va) ==
    LET e == EntryAt(m, slot, va, STRIDE_PML4) IN NextOf(m, e, e.p)
PML3_next(m, slot, va) ==
    LET e == EntryAt(m, slot, va, SIZE_1G) IN NextOf(m, e, e.p /\ ~e.h)
PML2_next(m, slot, va) ==
    LET e == EntryAt(m, slot, va, SIZE_2M) IN NextOf(m, e, e.p /\ ~e.h)

(***************************************************************************)
(* Table::lookup at each level.  A result is None, an EntryParts variant   *)
(* with its frame address and Attrs, or "panic".                           *)
(***************************************************************************)
NoEntry == [kind |-> "None", frame |-> 0, attrs |-> AttrsEmpty]
PanicEntry == [kind |-> "panic", frame |-> 0, attrs |-> AttrsEmpty]
\* EntryParts::EntryX(PFNX::new(entry.phys_addr()), entry.attrs())
Parts(kind, size, entry) ==
    IF PTE_phys_addr(entry) % size # 0 THEN PanicEntry
    ELSE [kind |-> kind, frame |-> PTE_phys_addr(entry),
          attrs |-> PTEAttrs(entry)]

PML1_lookup(m, slot, va) ==
    LET e == EntryAt(m, slot, va, SIZE_4K) IN
    IF e.p THEN Parts("Entry4K", SIZE_4K, e) ELSE NoEntry

PML2_lookup(m, slot, va) ==
    LET e == EntryAt(m, slot, va, SIZE_2M) IN
    IF ~e.p THEN NoEntry
    ELSE IF ~e.h THEN
        LET n == PML2_next(m, slot, va) IN
        IF n.tag = "Some" THEN PML1_lookup(m, n.slot, va)
        ELSE IF n.tag = "None" THEN NoEntry ELSE PanicEntry
    ELSE Parts("Entry2M", SIZE_2M, e)

PML3_lookup(m, slot, va) ==
    LET e == EntryAt(m, slot, va, SIZE_1G) IN
    IF ~e.p THEN NoEntry
    ELSE IF ~e.h THEN
        LET n == PML3_next(m, slot, va) IN
        IF n.tag = "Some" THEN PML2_lookup(m, n.slot, va)
        ELSE IF n.tag = "None" THEN NoEntry ELSE PanicEntry
    ELSE Parts("Entry1G", SIZE_1G, e)

PML4_lookup(m, slot, va) ==
    LET n == PML4_next(m, slot, va) IN
    IF n.tag = "Some" THEN PML3_lookup(m, n.slot, va)
    ELSE IF n.tag = "None" THEN NoEntry ELSE PanicEntry

\* The PageTable is the first page taken from the arena (PageTable::new).
ROOT == 1
\* PageTable::lookup
PageTable_lookup(m, va) == PML4_lookup(m, ROOT, va)
\* PageTable::phys_addr: the address of the PML4.
PageTable_phys_addr(m) == TableAddr(ROOT)

(***************************************************************************)
(* Table::map at each level.  A mapping mp is [level, va, frame, attrs]:   *)
(* level 1 is Mapping1::Map4K, level 2 is Mapping2::Map2M wrapped in Next  *)
(* down to it, level 3 is Mapping3::Map1G.                                 *)
(***************************************************************************)
PML1_map(m, slot, mp) ==
    SetEntry(m, slot, mp.va, SIZE_4K, PTENew(mp.frame, mp.attrs, FALSE))

\* The Mapping2::Next arm of PML2::map.
PML2_map_next(m, slot, mp) ==
    LET e == EntryAt(m, slot, mp.va, SIZE_2M)
        \* self.entry(va): None iff the entry is not present.
        probe == IF e.p /\ ~e.h THEN PML2_next(m, slot, mp.va).tag ELSE "skip"
        m0 == IF probe = "panic" THEN [m EXCEPT !.st = "panic"] ELSE m
        alloc == IF m0.st = "ok" /\ ~e.p
                 THEN Bind(TableNew(m0, 1), LAMBDA a :
                        IF a.st # "ok" THEN a
                        ELSE SetEntry(a, slot, mp.va, SIZE_2M,
                                      PTENewForTable(TableAddr(Len(a.tabs)))))
                 ELSE m0
    IN  Bind(alloc, LAMBDA m1 :
          LET n == PML2_next(m1, slot, mp.va) IN
          IF m1.st # "ok" THEN m1
          ELSE IF n.tag = "Some" THEN PML1_map(m1, n.slot, mp)
          ELSE IF n.tag = "panic" THEN [m1 EXCEPT !.st = "panic"]
          ELSE m1)

PML2_map(m, slot, mp) ==
    IF mp.level = 2
    THEN SetEntry(m, slot, mp.va, SIZE_2M, PTENew(mp.frame, mp.attrs, TRUE))
    ELSE PML2_map_next(m, slot, mp)

\* The Mapping3::Next arm of PML3::map.
PML3_map_next(m, slot, mp) ==
    LET e == EntryAt(m, slot, mp.va, SIZE_1G)
        \* self.entry(va): None iff the entry is not present.
        probe == IF e.p /\ ~e.h THEN PML3_next(m, slot, mp.va).tag ELSE "skip"
        m0 == IF probe = "panic" THEN [m EXCEPT !.st = "panic"] ELSE m
        alloc == IF m0.st = "ok" /\ ~e.p
                 THEN Bind(TableNew(m0, 2), LAMBDA a :
                        IF a.st # "ok" THEN a
                        ELSE SetEntry(a, slot, mp.va, SIZE_1G,
                                      PTENewForTable(TableAddr(Len(a.tabs)))))
                 ELSE m0
    IN  Bind(alloc, LAMBDA m1 :
          LET n == PML3_next(m1, slot, mp.va) IN
          IF m1.st # "ok" THEN m1
          ELSE IF n.tag = "Some" THEN PML2_map(m1, n.slot, mp)
          ELSE IF n.tag = "panic" THEN [m1 EXCEPT !.st = "panic"]
          ELSE m1)

\* PML3::map taking the Next arm for every mapping.
PML3_map_descending(m, slot, mp) == PML3_map_next(m, slot, mp)

PML3_map(m, slot, mp) ==
    IF mp.level = 3
    THEN SetEntry(m, slot, mp.va, SIZE_1G, PTENew(mp.frame, mp.attrs, TRUE))
    ELSE PML3_map_next(m, slot, mp)

PML4_map(m, slot, mp) ==
    LET e == EntryAt(m, slot, mp.va, STRIDE_PML4)
        \* self.entry(va): None iff the entry is not present.
        probe == IF e.p THEN PML4_next(m, slot, mp.va).tag ELSE "skip"
        m0 == IF probe = "panic" THEN [m EXCEPT !.st = "panic"] ELSE m
        alloc == IF m0.st = "ok" /\ ~e.p
                 THEN Bind(TableNew(m0, 3), LAMBDA a :
                        IF a.st # "ok" THEN a
                        ELSE SetEntry(a, slot, mp.va, STRIDE_PML4,
                                      PTENewForTable(TableAddr(Len(a.tabs)))))
                 ELSE m0
    IN  Bind(alloc, LAMBDA m1 :
          LET n == PML4_next(m1, slot, mp.va) IN
          IF m1.st # "ok" THEN m1
          ELSE IF n.tag = "Some" THEN PML3_map(m1, n.slot, mp)
          ELSE IF n.tag = "panic" THEN [m1 EXCEPT !.st = "panic"]
          ELSE m1)

(***************************************************************************)
(* Table::unmap at each level: [m, some], some being whether the call      *)
(* returned Some(old entry).                                               *)
(***************************************************************************)
\* let old = self.set_entry(va, None); old.p().then_some(old)
UnmapHere(m, slot, va, stride) ==
    [m |-> SetEntry(m, slot, va, stride, PTEEmpty),
     some |-> EntryAt(m, slot, va, stride).p]

\* self.next_mut(va).and_then(...) when next_mut gave n and did not descend.
UnmapStop(m, n) ==
    [m |-> IF n.tag = "panic" THEN [m EXCEPT !.st = "panic"] ELSE m,
     some |-> FALSE]

PML1_unmap(m, slot, mp) == UnmapHere(m, slot, mp.va, SIZE_4K)

PML2_unmap(m, slot, mp) ==
    IF mp.level = 2 THEN UnmapHere(m, slot, mp.va, SIZE_2M)
    ELSE LET n == PML2_next(m, slot, mp.va) IN
         IF n.tag = "Some" THEN PML1_unmap(m, n.slot, mp) ELSE UnmapStop(m, n)

PML3_unmap(m, slot, mp) ==
    IF mp.level = 3 THEN UnmapHere(m, slot, mp.va, SIZE_1G)
    ELSE LET n == PML3_next(m, slot, mp.va) IN
         IF n.tag = "Some" THEN PML2_unmap(m, n.slot, mp) ELSE UnmapStop(m, n)

PML4_unmap(m, slot, mp) ==
    LET n == PML4_next(m, slot, mp.va) IN
    IF n.tag = "Some" THEN PML3_unmap(m, n.slot, mp) ELSE UnmapStop(m, n)

\* PageTable::map::<P> and PageTable::unmap::<P>
PageTable_map(m, level, va, frame, attrs) ==
    PML4_map(m, ROOT, [level |-> level, va |-> va, frame |-> frame,
                       attrs |-> attrs])
PageTable_unmap(m, level, va) ==
    PML4_unmap(m, ROOT, [level |-> level, va |-> va, frame |-> 0,
                         attrs |-> AttrsEmpty])

(***************************************************************************)
(* PageTable::map_region.  The result is [m, steps]: steps lists, in       *)
(* order, what each turn of the loop saw and chose: its number, the cursor *)
(* va, the physical cursor pa, the end of the region, the level mapped.    *)
(***************************************************************************)
SizeOf(level) == IF level = 3 THEN SIZE_1G
                 ELSE IF level = 2 THEN SIZE_2M ELSE SIZE_4K

\* The chain with its two huge-page branches removed.
MapPageLevel_base_only(start, end, pa) ==
    IF wrapping_sub(end, start) >= SIZE_4K
       /\ is_multiple_of(start, SIZE_4K) /\ is_multiple_of(pa, SIZE_4K) THEN 1
    ELSE 0

\* The if/else-if chain of the loop: 3, 2, 1 for Page1G, Page2M, Page4K,
\* 0 for panic!("bad page size").
MapPageLevel(start, end, pa) ==
    IF wrapping_sub(end, start) >= SIZE_1G /\ is_multiple_of(start, SIZE_1G)
       /\ is_multiple_of(pa, SIZE_1G) THEN 3
    ELSE IF wrapping_sub(end, start) >= SIZE_2M
       /\ is_multiple_of(start, SIZE_2M) /\ is_multiple_of(pa, SIZE_2M) THEN 2
    ELSE IF wrapping_sub(end, start) >= SIZE_4K
       /\ is_multiple_of(start, SIZE_4K) /\ is_multiple_of(pa, SIZE_4K) THEN 1
    ELSE 0

RECURSIVE MapLoop(_, _, _, _, _, _)
MapLoop(m, start, end, pa, attrs, steps) ==
    IF start = end \/ m.st # "ok" THEN [m |-> m, steps |-> steps]
    ELSE LET level == MapPageLevel(start, end, pa) IN
         IF level = 0
         THEN [m |-> [m EXCEPT !.st = "panic"], steps |-> steps]
         ELSE Bind([m |-> PageTable_map(m, level, start, pa, attrs),
                    steps |-> Append(steps, [turn |-> Len(steps) + 1,
                                             va |-> start, pa |-> pa,
                                             end |-> end, level |-> level]),
                    start |-> wrapping_add(start, SizeOf(level)),
                    pa |-> pa + SizeOf(level)],
                   LAMBDA n :
                     IF n.pa >= ADDR_SPACE    \* pa.checked_add(len).unwrap()
                     THEN [m |-> [n.m EXCEPT !.st = "panic"],
                           steps |-> n.steps]
                     ELSE MapLoop(n.m, n.start, end, n.pa, attrs, n.steps))

PageTable_map_region(m, start, end, attrs, pa) ==
    IF ~is_canonical_range(start, end)
       \/ pa + wrapping_sub(end, start) >= ADDR_SPACE
       \/ ~is_physical(pa + wrapping_sub(end, start))
    THEN [m |-> [m EXCEPT !.st = "panic"], steps |-> <<>>]
    ELSE MapLoop(m, start, end, pa, attrs, <<>>)

(***************************************************************************)
(* PageTable::unmap_range: [m, res], res in {"Ok", "Unmapped", "panic"}.   *)
(***************************************************************************)
\* The page size chosen by the alignment of start alone.
UnmapPageLevel_by_alignment(start, end) ==
    IF is_multiple_of(start, SIZE_1G) THEN 3
    ELSE IF is_multiple_of(start, SIZE_2M) THEN 2
    ELSE IF is_multiple_of(start, SIZE_4K) THEN 1
    ELSE 0

UnmapPageLevel(start, end) ==
    IF wrapping_sub(end, start) >= SIZE_1G /\ is_multiple_of(start, SIZE_1G)
    THEN 3
    ELSE IF wrapping_sub(end, start) >= SIZE_2M
       /\ is_multiple_of(start, SIZE_2M) THEN 2
    ELSE IF wrapping_sub(end, start) >= SIZE_4K
       /\ is_multiple_of(start, SIZE_4K) THEN 1
    ELSE 0

RECURSIVE UnmapLoop(_, _, _)
UnmapLoop(m, start, end) ==
    IF start = end THEN [m |-> m, res |-> "Ok"]
    ELSE LET level == UnmapPageLevel(start, end) IN
         IF level = 0
         THEN [m |-> [m EXCEPT !.st = "panic"], res |-> "panic"]
         ELSE Bind([u |-> PageTable_unmap(m, level, start),
                    start |-> wrapping_add(start, SizeOf(level))],
                   LAMBDA n :
                     IF n.u.m.st # "ok" THEN [m |-> n.u.m, res |-> "panic"]
                     ELSE IF ~n.u.some THEN [m |-> n.u.m, res |-> "Unmapped"]
                     ELSE UnmapLoop(n.u.m, n.start, end))

PageTable_unmap_range(m, start, end) ==
    IF ~is_canonical_range(start, end)
    THEN [m |-> [m EXCEPT !.st = "panic"], res |-> "panic"]
    ELSE UnmapLoop(m, start, end)

(***************************************************************************)
(* PageTable::is_region_mapped: "true", "false" or "panic".  checked says  *)
(* whether the build traps arithmetic overflow (the debug profile does,    *)
(* the release profile wraps): it decides `end - start`.                   *)
(***************************************************************************)
\* The length the matching arm yields for the entry found, 0 for `_`.
ChunkLen(entry, start, attrs) ==
    IF entry.kind = "Entry1G" /\ permits(entry.attrs, attrs)
    THEN SIZE_1G - (start % SIZE_1G)
    ELSE IF entry.kind = "Entry2M" /\ permits(entry.attrs, attrs)
    THEN SIZE_2M - (start % SIZE_2M)
    ELSE IF entry.kind = "Entry4K" /\ permits(entry.attrs, attrs)
    THEN SIZE_4K
    ELSE 0

Min(a, b) == IF a <= b THEN a ELSE b

RECURSIVE MappedLoop(_, _, _, _, _)
MappedLoop(m, start, end, attrs, checked) ==
    IF start = end THEN "true"
    ELSE Bind(PageTable_lookup(m, start), LAMBDA entry :
           LET len == ChunkLen(entry, start, attrs) IN
           IF entry.kind = "panic" THEN "panic"
           ELSE IF len = 0 THEN "false"
           ELSE IF end < start /\ checked THEN "panic"
           ELSE Bind(wrapping_add(start, Min(len, wrapping_sub(end, start))),
                     LAMBDA next : MappedLoop(m, next, end, attrs, checked)))

PageTable_is_region_mapped(m, start, end, attrs, checked) ==
    IF ~is_canonical_range(start, end) THEN "false"
    ELSE MappedLoop(m, start, end, attrs, checked)

(***************************************************************************)
(* LoaderPageTable.  A range is [start, end], both V4KA.                   *)
(***************************************************************************)
\* RangeInclusive::contains
Contains(lo, hi, x) == lo <= x /\ x <= hi

\* Only the first of the two containment tests.
overlaps_start_only(rs, start, end) ==
    \E i \in 1 .. Len(rs) :
        Contains(rs[i].start, wrapping_sub(rs[i].end, 1), start)

\* The end of a listed range taken as its last address.
overlaps_closed_end(rs, start, end) ==
    \E i \in 1 .. Len(rs) :
        \/ Contains(rs[i].start, rs[i].end, start)
        \/ Contains(start, wrapping_sub(end, 1), rs[i].start)

\* An inclusive range whose end lies below its start taken as every address.
overlaps_wrapped_is_all(rs, start, end) ==
    \E i \in 1 .. Len(rs) :
        \/ wrapping_sub(rs[i].end, 1) < rs[i].start
        \/ Contains(rs[i].start, wrapping_sub(rs[i].end, 1), start)
        \/ Contains(start, wrapping_sub(end, 1), rs[i].start)

overlaps(rs, start, end) ==
    \E i \in 1 .. Len(rs) :
        \/ Contains(rs[i].start, wrapping_sub(rs[i].end, 1), start)
        \/ Contains(start, wrapping_sub(end, 1), rs[i].start)

\* map_region testing the virtual range only.
Loader_map_region_virtual_only(m, rsv, start, end, attrs, pa) ==
    IF overlaps(rsv, start, end)
    THEN [m |-> m, res |-> "ErrReserved", steps |-> <<>>]
    ELSE Bind(PageTable_map_region(m, start, end, attrs, pa), LAMBDA r :
           [m |-> r.m, steps |-> r.steps,
            res |-> IF r.m.st = "ok" THEN "Ok" ELSE "panic"])

\* LoaderPageTable::map_region: [m, res, steps].
Loader_map_region(m, rsv, start, end, attrs, pa) ==
    IF overlaps(rsv, start, end)
    THEN [m |-> m, res |-> "ErrReserved", steps |-> <<>>]
    ELSE LET len == wrapping_sub(end, start)
             pend == wrapping_add(pa, len)
         IN  IF ~V4KA_ok(pa) \/ ~V4KA_ok(pend)
             THEN [m |-> [m EXCEPT !.st = "panic"], res |-> "panic",
                   steps |-> <<>>]
             ELSE IF overlaps(rsv, pa, pend)
             THEN [m |-> m, res |-> "ErrPhysReserved", steps |-> <<>>]
             ELSE Bind(PageTable_map_region(m, start, end, attrs, pa),
                       LAMBDA r :
                         [m |-> r.m, steps |-> r.steps,
                          res |-> IF r.m.st = "ok" THEN "Ok" ELSE "panic"])

\* map_ram without its test of the MMIO list.
Loader_map_ram_unchecked(m, rsv, mmio_rs, start, end, attrs, pa) ==
    Loader_map_region(m, rsv, start, end, attrs, pa)

\* LoaderPageTable::map_ram
Loader_map_ram(m, rsv, mmio_rs, start, end, attrs, pa) ==
    IF overlaps(mmio_rs, start, end)
    THEN [m |-> m, res |-> "ErrMmio", steps |-> <<>>]
    ELSE Loader_map_region(m, rsv, start, end, attrs, pa)

\* unmap_range without its test of the reserved list.
Loader_unmap_range_unguarded(m, rsv, start, end) ==
    PageTable_unmap_range(m, start, end)

\* LoaderPageTable::unmap_range
Loader_unmap_range(m, rsv, start, end) ==
    IF overlaps(rsv, start, end)
    THEN [m |-> m, res |-> "ErrReserved"]
    ELSE PageTable_unmap_range(m, start, end)

\* LoaderPageTable::lookup: the entry rebuilt as Entry::PageX(PTE::new(..)).
Loader_lookup(m, va) ==
    LET e == PageTable_lookup(m, va) IN
    IF e.kind \in {"None", "panic"} THEN [kind |-> e.kind, pte |-> PTEEmpty]
    ELSE [kind |-> e.kind,
          pte |-> PTENew(e.frame, e.attrs, e.kind # "Entry4K")]

\* try_with_addr testing the alignment before the mapping.
PageTable_try_with_addr_align_first(m, va, align) ==
    IF ~is_canonical(va) THEN "PtrNonCanon"
    ELSE IF va % align # 0 THEN "PtrAlign"
    ELSE IF PageTable_lookup(m, va).kind = "None" THEN "Unmapped"
    ELSE "Ok"

\* PageTable::try_with_addr::<T>(va), align being the alignment of T.
PageTable_try_with_addr(m, va, align) ==
    IF ~is_canonical(va) THEN "PtrNonCanon"
    ELSE Bind(PageTable_lookup(m, va), LAMBDA e :
           IF e.kind = "panic" THEN "panic"
           ELSE IF e.kind = "None" THEN "Unmapped"
           ELSE IF va % align # 0 THEN "PtrAlign"
           ELSE "Ok")

(***************************************************************************)
(* loader::load_segment for a segment whose vm_range() is [vstart, vend),  *)
(* whose p_paddr is pa and whose flags give kattrs; truncated says that    *)
(* the file yields fewer bytes than p_filesz.  The result is [m, res,      *)
(* start, end, mapped]: the region it worked on and whether its first      *)
(* map_ram was accepted.  The bytes it writes go to the mapped memory, not *)
(* to the tables.                                                          *)
(***************************************************************************)
SegResult(m, res, start, end, mapped) ==
    [m |-> m, res |-> res, start |-> start, end |-> end, mapped |-> mapped]

\* From the second map_ram on.
load_segment_remap(m, rsv, mmio_rs, start, end, kattrs, pa) ==
    Bind(Loader_map_ram(m, rsv, mmio_rs, start, end, kattrs, pa), LAMBDA r :
        SegResult(r.m, r.res, start, end, TRUE))

\* From try_with_addr on, the first map_ram having returned Ok.
load_segment_fill(m, rsv, mmio_rs, start, end, kattrs, pa, truncated, chk) ==
    Bind(PageTable_try_with_addr(m, start, 1), LAMBDA t :
        IF t = "panic"
        THEN SegResult([m EXCEPT !.st = "panic"], "panic", start, end, TRUE)
        ELSE IF t # "Ok" THEN SegResult(m, t, start, end, TRUE)
        ELSE IF end < start /\ chk           \* end.addr() - start.addr()
        THEN SegResult([m EXCEPT !.st = "panic"], "panic", start, end, TRUE)
        ELSE IF truncated
        THEN SegResult(m, "ElfTruncatedObj", start, end, TRUE)
        ELSE load_segment_remap(m, rsv, mmio_rs, start, end, kattrs, pa))

load_segment(m, rsv, mmio_rs, vstart, vend, kattrs, pa, truncated, checked) ==
    IF pa % PAGE_SIZE # 0 THEN SegResult(m, "ElfSegPAlign", vstart, vend, FALSE)
    ELSE IF \/ (vstart <= LOW_CANON_SUP /\ LOW_CANON_SUP < vend)
            \/ (vstart <= HI_CANON_INF /\ HI_CANON_INF < vend)
    THEN SegResult(m, "ElfSegNonCanon", vstart, vend, FALSE)
    ELSE IF vstart % PAGE_SIZE # 0
    THEN SegResult(m, "ElfSegVAlign", vstart, vend, FALSE)
    ELSE IF vend <= vstart
    THEN SegResult(m, "ElfSegEmpty", vstart, vend, FALSE)
    ELSE IF ~V4KA_ok(vstart) \/ ~V4KA_ok(round_up_4k(vend)) \/ ~P4KA_ok(pa)
    THEN SegResult([m EXCEPT !.st = "panic"], "panic", vstart, vend, FALSE)
    ELSE Bind([start |-> vstart, end |-> round_up_4k(vend)], LAMBDA rg :
           Bind(Loader_map_ram(m, rsv, mmio_rs, rg.start, rg.end, new_data,
                               pa),
                LAMBDA r :
                  IF r.res # "Ok"
                  THEN SegResult(r.m, r.res, rg.start, rg.end, FALSE)
                  ELSE load_segment_fill(r.m, rsv, mmio_rs, rg.start, rg.end,
                                         kattrs, pa, truncated, checked)))

(***************************************************************************)
(* PageTable::identity_map over a list of regions [start, end, attrs]:     *)
(* [m, steps, mids], mids[i] being the memory before region i was mapped.  *)
(***************************************************************************)
RECURSIVE IdentityLoop(_, _, _, _, _)
IdentityLoop(m, regions, i, steps, mids) ==
    IF i > Len(regions) \/ m.st # "ok"
    THEN [m |-> m, steps |-> steps, mids |-> mids]
    ELSE LET rg == regions[i] IN
         IF ~P4KA_ok(rg.start)      \* mem::P4KA::new(region.start().addr())
         THEN [m |-> [m EXCEPT !.st = "panic"], steps |-> steps,
               mids |-> mids]
         ELSE Bind([r |-> PageTable_map_region(m, rg.start, rg.end,
                                               rg.attrs, rg.start),
                    mids |-> Append(mids, m)],
                   LAMBDA n :
                     Bind(steps \o n.r.steps, LAMBDA all :
                       IdentityLoop(n.r.m, regions, i + 1, all, n.mids)))

PageTable_identity_map(m, regions) == IdentityLoop(m, regions, 1, <<>>, <<>>)

(***************************************************************************)
(* Inputs.  Addresses are written with the page sizes so that they keep    *)
(* their alignment when the scale changes.                                 *)
(***************************************************************************)
P == SIZE_4K
M == SIZE_2M
G == SIZE_1G
HI_BASE == HI_CANON_INF + 1

Rg(start, end) == [start |-> start, end |-> end]
Region(start, end, attrs) == [start |-> start, end |-> end, attrs |-> attrs]

\* The states LoaderPageTable::new is reached in: what was identity mapped
\* before it, and the reserved and MMIO lists it is given.
\*   CfgEmpty: loader_page_table_tests::region_is_readable.
\*   CfgBoot:  bldb::remap and bldb::init, the loader image in the second
\*             1GiB, the MMIO window mapped by a huge page, the console
\*             page at its start.
\*   CfgSpace: tests::test_an_addr_space, two huge MMIO pages and a data
\*             region of mixed page sizes.
\*   CfgNoRamdisk: bldb::init where ramdisk_addr() equals saddr(): the
\*             reserved ramdisk_region is ramdisk_addr()..saddr(), of no
\*             address; the other reserved range ends at the top of the
\*             address space.
\*   CfgFull:  as CfgEmpty, late in a session: all pages of the arena but
\*             one are taken, by tables of the parts of the address space
\*             that the scaled space leaves out (spent counts them).
CfgEmpty == [regions |-> <<>>, reserved |-> <<>>, mmio |-> <<>>, spent |-> 0]
CfgFull == [regions |-> <<>>, reserved |-> <<>>, mmio |-> <<>>,
            spent |-> PAGE_ARENA_PAGES - 2]
CfgBoot ==
    [regions |-> << Region(G, G + P, new_text),
                    Region(G + P, G + 2 * P, new_rodata),
                    Region(G + 2 * P, G + M, new_data),
                    Region(G + M, G + 2 * M, new_data),
                    Region(2 * G, 2 * G + 2 * M, new_mmio) >>,
     reserved |-> <<Rg(G, G + 2 * M), Rg(2 * G, 2 * G + P)>>,
     mmio |-> <<Rg(2 * G, 2 * G + 2 * M)>>, spent |-> 0]
CfgNoRamdisk ==
    [regions |-> <<Region(M, M + P, new_data)>>,
     reserved |-> <<Rg(M, M), Rg(ADDR_SPACE - P, 0)>>,
     mmio |-> <<>>, spent |-> 0]
CfgSpace ==
    [regions |-> << Region(0, 2 * G, new_mmio),
                    Region(2 * G + P, 2 * G + 2 * M, new_data) >>,
     reserved |-> <<>>, mmio |-> <<>>, spent |-> 0]
Configs == {CfgEmpty, CfgBoot, CfgSpace, CfgFull, CfgNoRamdisk}

\* Attrs of requests: Attrs::new_text(), Attrs::new_data(), and what
\* repl::vm::parse_page_attrs yields for "-r".
ParseNoRead == [new_rw EXCEPT !.r = FALSE]
\* load_segment: Attrs::new_kernel(is_read, is_write, is_executable).
KernelText == new_kernel(TRUE, FALSE, TRUE)

\* Virtual ranges of requests: a huge page, single pages, a range of mixed
\* page sizes, a 2MiB-aligned range next to single pages, ranges ending at
\* the top of the address space, an empty and a reversed range.
Ranges ==
    { Rg(0, 2 * G), Rg(P, 2 * P), Rg(M, 2 * M + P),
      Rg(G + P, G + M), Rg(2 * G + P, 2 * G + 2 * P), Rg(2 * G, 2 * G + M),
      Rg(ADDR_SPACE - G, 0), Rg(HI_BASE, 0),
      Rg(P, P), Rg(2 * P, P) }

\* Physical bases tried for a range: the identity where it is physical,
\* 0 elsewhere, a base of another alignment for the ranges that could take
\* a huge page, and the loader image and the MMIO window for the ranges
\* that are far from both.
PhysFor(rg) ==
    {pa \in {0, P, G, 2 * G + P, rg.start} :
        \/ pa = rg.start /\ P4KA_ok(pa)
        \/ pa = 0 /\ ~is_physical(rg.start)
        \/ pa = P /\ rg \in {Rg(0, 2 * G), Rg(M, 2 * M + P)}
        \/ pa = G /\ rg \in {Rg(P, 2 * P), Rg(ADDR_SPACE - G, 0)}
        \/ pa = 2 * G + P /\ rg = Rg(P, 2 * P)}

\* vm_range() of the segments loaded: a segment ending inside its only
\* page, one of mixed page sizes, one inside the loader image, one inside
\* the MMIO window, one that crosses the end of the lower canonical half,
\* and one ending in the last page of the address space.
Segments ==
    { Rg(P, P + 1), Rg(M, 2 * M + P), Rg(G + P, G + M),
      Rg(2 * G + P, 2 * G + 2 * P),
      Rg(LOW_CANON_SUP - P, LOW_CANON_SUP + P),
      Rg(ADDR_SPACE - P, ADDR_SPACE - 1) }

\* p_paddr of a segment: its virtual start where that is a physical
\* address, a low address elsewhere, an address that is not page-aligned.
SegPhysFor(vm) ==
    {pa \in {P, P + 1, vm.start} :
        \/ pa = vm.start /\ is_physical(pa)
        \/ pa = P /\ ~is_physical(vm.start)
        \/ pa = P + 1 /\ vm = Rg(P, P + 1)}

\* new_kernel of the flags of a text and of a data segment.
KernelData == new_kernel(TRUE, TRUE, FALSE)
SegmentAttrs == {KernelText, KernelData}

\* Addresses and alignments of T handed to try_with_addr: a byte of the
\* second page, a word of the loader image, a byte between the canonical
\* halves, a word of the upper half; bytes and 8-byte words.
TryAddrs == {P + 1, G + P + 8, LOW_CANON_SUP + 1, HI_BASE + 16}
TryAligns == {1, 8}

MapRegionAttrs == {new_text, new_data, ParseNoRead}
MapRamAttrs == {new_data, KernelText}
WantedAttrs == {new_ro, new_rw, new_x}

VARIABLES
    mem,              \* the arena and the tables in it
    reserved, mmio,   \* the lists of the LoaderPageTable
    cfg,              \* the configuration of this boot
    boot_mem,         \* mem as LoaderPageTable::new received it
    overflow_checks,  \* the build traps integer overflow (debug profile)
    pc,               \* "boot", "mapped", "idle", "done", "aborted"
    last,             \* the call that just returned, while pc = "done"
    prev,             \* the request of the latest accepted call before
                      \* `last`, if it was a map_region
    nmut              \* accepted map and unmap calls so far; the session
                      \* is followed until MaxMut of them

vars ==
    <<mem, reserved, mmio, cfg, boot_mem, overflow_checks, pc, last, prev, nmut>>

NoMem == [tabs |-> <<>>, kinds |-> <<>>, st |-> "ok"]
NoLast == [op |-> "none", start |-> 0, end |-> 0, attrs |-> AttrsEmpty,
           pa |-> 0, res |-> "none", pre |-> NoMem, steps |-> <<>>,
           mids |-> <<>>, pte |-> PTEEmpty]

NoPrev == [op |-> "none", start |-> 0, end |-> 0, attrs |-> AttrsEmpty,
           pa |-> 0]

\* n more pages taken from the arena, for tables (kind 0) that hold no
\* entry of the scaled address space.
Spend(m, n) ==
    IF Len(m.tabs) + n > PAGE_ARENA_PAGES THEN [m EXCEPT !.st = "panic"]
    ELSE [m EXCEPT !.tabs = m.tabs \o [i \in 1 .. n |-> ZeroTable],
                   !.kinds = m.kinds \o [i \in 1 .. n |-> 0]]

\* PageTable::new() has run: the PML4 is the first page of the arena.
Init ==
    /\ cfg \in Configs
    /\ mem = Spend(TableNew(NoMem, 4), cfg.spent)
    /\ reserved = <<>> /\ mmio = <<>>
    /\ boot_mem = NoMem
    /\ overflow_checks \in BOOLEAN
    /\ pc = "boot"
    /\ last = NoLast
    /\ prev = NoPrev
    /\ nmut = 0

\* bldb::remap: page_table.identity_map(regions).
IdentityMap ==
    /\ pc = "boot"
    /\ \E r \in {PageTable_identity_map(mem, cfg.regions)} :
       /\ mem' = r.m
       /\ last' = [NoLast EXCEPT !.op = "identity_map", !.pre = mem,
                      !.res = IF r.m.st = "ok" THEN "Ok" ELSE "panic",
                      !.steps = r.steps, !.mids = Append(r.mids, r.m)]
       /\ pc' = IF r.m.st = "ok" THEN "mapped" ELSE "aborted"
    /\ UNCHANGED <<reserved, mmio, cfg, boot_mem, overflow_checks, prev, nmut>>

\* LoaderPageTable::new(page_table, reserved, mmio)
LoaderNew ==
    /\ pc = "mapped"
    /\ reserved' = cfg.reserved
    /\ mmio' = cfg.mmio
    /\ boot_mem' = mem
    /\ pc' = "idle"
    /\ last' = NoLast
    /\ UNCHANGED <<mem, cfg, overflow_checks, prev, nmut>>

\* What a call leaves behind: its result, and whether the process lives.
Finish(op, rg, attrs, pa, r_m, res, steps) ==
    /\ mem' = r_m
    /\ last' = [NoLast EXCEPT !.op = op, !.start = rg.start, !.end = rg.end,
                   !.attrs = attrs, !.pa = pa, !.res = res, !.pre = mem,
                   !.steps = steps]
    /\ pc' = IF res = "panic" THEN "aborted" ELSE "done"
    /\ nmut' = IF res = "Ok" /\ op # "is_region_mapped" THEN nmut + 1 ELSE nmut
    /\ UNCHANGED <<reserved, mmio, cfg, boot_mem, overflow_checks, prev>>

MapRegion(rg, attrs, pa) ==
    /\ pc = "idle" /\ nmut < MaxMut
    /\ \E r \in {Loader_map_region(mem, reserved, rg.start, rg.end, attrs,
                                    pa)} :
          Finish("map_region", rg, attrs, pa, r.m, r.res, r.steps)

MapRam(rg, attrs, pa) ==
    /\ pc = "idle" /\ nmut < MaxMut
    /\ \E r \in {Loader_map_ram(mem, reserved, mmio, rg.start, rg.end, attrs,
                                 pa)} :
          Finish("map_ram", rg, attrs, pa, r.m, r.res, r.steps)

UnmapRange(rg) ==
    /\ pc = "idle" /\ nmut < MaxMut
    /\ \E r \in {Loader_unmap_range(mem, reserved, rg.start, rg.end)} :
          Finish("unmap_range", rg, AttrsEmpty, 0, r.m, r.res, <<>>)

\* loader::load_segment(page_table, segment, file)
LoadSegment(vm, kattrs, pa, truncated) ==
    /\ pc = "idle" /\ nmut < MaxMut
    /\ \E r \in {load_segment(mem, reserved, mmio, vm.start, vm.end, kattrs,
                              pa, truncated, overflow_checks)} :
          /\ mem' = r.m
          /\ last' = [NoLast EXCEPT !.op = "load_segment", !.start = r.start,
                         !.end = r.end, !.attrs = kattrs, !.pa = pa,
                         !.res = r.res, !.pre = mem]
          /\ pc' = IF r.res = "panic" THEN "aborted" ELSE "done"
          /\ nmut' = IF r.mapped THEN nmut + 1 ELSE nmut
    /\ UNCHANGED <<reserved, mmio, cfg, boot_mem, overflow_checks, prev>>

\* LoaderPageTable::try_with_addr::<T>(va); last.pa holds the alignment.
TryAddr(va, align) ==
    /\ pc = "idle" /\ nmut < MaxMut
    /\ \E res \in {PageTable_try_with_addr(mem, va, align)} :
          Finish("try_with_addr", Rg(va, va), AttrsEmpty, align,
                  IF res = "panic" THEN [mem EXCEPT !.st = "panic"] ELSE mem,
                  IF res = "Ok" THEN "Ptr" ELSE res, <<>>)

\* LoaderPageTable::is_region_mapped(range, attrs)
IsRegionMapped(rg, attrs) ==
    /\ pc = "idle" /\ nmut < MaxMut
    /\ \E res \in {PageTable_is_region_mapped(mem, rg.start, rg.end, attrs,
                                               overflow_checks)} :
          Finish("is_region_mapped", rg, attrs, 0,
                  IF res = "panic" THEN [mem EXCEPT !.st = "panic"] ELSE mem,
                  res, <<>>)

\* The command loop takes the result and prompts again.
Return ==
    /\ pc = "done"
    /\ pc' = "idle"
    /\ last' = NoLast
    /\ prev' = IF last.res = "Ok" /\ last.op = "map_region"
               THEN [op |-> last.op, start |-> last.start, end |-> last.end,
                     attrs |-> last.attrs, pa |-> last.pa]
               ELSE IF last.res = "Ok" THEN NoPrev
               ELSE prev
    /\ UNCHANGED <<mem, reserved, mmio, cfg, boot_mem, overflow_checks, nmut>>

Next ==
    \/ IdentityMap
    \/ LoaderNew
    \/ \E rg \in Ranges, attrs \in MapRegionAttrs :
          \E pa \in PhysFor(rg) : MapRegion(rg, attrs, pa)
    \/ \E rg \in Ranges, attrs \in MapRamAttrs :
          \E pa \in PhysFor(rg) : MapRam(rg, attrs, pa)
    \/ \E rg \in Ranges : UnmapRange(rg)
    \/ \E vm \in Segments, kattrs \in SegmentAttrs, truncated \in BOOLEAN :
          \E pa \in SegPhysFor(vm) : LoadSegment(vm, kattrs, pa, truncated)
    \/ \E rg \in Ranges, attrs \in WantedAttrs : IsRegionMapped(rg, attrs)
    \/ \E va \in TryAddrs, align \in TryAligns : TryAddr(va, align)
    \/ Return

Spec == Init /\ [][Next]_vars

(***************************************************************************)
(* The constructors of the typed addresses and of the leaf entry, applied  *)
(* to every address and every Attrs.  `last` holds the call: start is the  *)
(* address, pa the page size, res "Ok" or "panic", pte the entry built.    *)
(***************************************************************************)
\* Page4K::new, Page2M::new, Page1G::new (level 1, 2, 3) return.
Page_new_ok(level, va) == va % SizeOf(level) = 0
\* PFN4K::new, PFN2M::new, PFN1G::new return.
PFN_new_ok(level, addr) == addr % SizeOf(level) = 0
\* F::BIG of the frame type of a level.
FrameBig(level) == level # 1

\* Every half page of the address space.
TypeAddrs == {a * (PAGE_SIZE \div 2) : a \in 0 .. 2 * (ADDR_SPACE \div PAGE_SIZE) - 1}
\* The frames of a level: the addresses its PFN type accepts.
Frames(level) == {addr \in TypeAddrs : PFN_new_ok(level, addr)}
\* Every value of the six bits of an Attrs.
AllAttrs == [r : BOOLEAN, w : BOOLEAN, nc : BOOLEAN, g : BOOLEAN,
             k : BOOLEAN, nx : BOOLEAN]

TypesInit ==
    /\ cfg = CfgEmpty
    /\ mem = NoMem
    /\ reserved = <<>> /\ mmio = <<>>
    /\ boot_mem = NoMem
    /\ overflow_checks = FALSE
    /\ pc = "types"
    /\ last = NoLast
    /\ prev = NoPrev
    /\ nmut = 0

Made(op, addr, size, attrs, ok, pte) ==
    /\ pc = "types"
    /\ pc' = "made"
    /\ last' = [NoLast EXCEPT !.op = op, !.start = addr, !.pa = size,
                   !.attrs = attrs, !.pte = pte,
                   !.res = IF ok THEN "Ok" ELSE "panic"]
    /\ UNCHANGED <<mem, reserved, mmio, cfg, boot_mem, overflow_checks, prev,
                   nmut>>

NewV4KA(addr) ==
    Made("V4KA::new", addr, SIZE_4K, AttrsEmpty, V4KA_ok(addr), PTEEmpty)
NewP4KA(addr) ==
    Made("P4KA::new", addr, SIZE_4K, AttrsEmpty, P4KA_ok(addr), PTEEmpty)
NewPage(level, addr) ==
    Made("Page::new", addr, SizeOf(level), AttrsEmpty,
         Page_new_ok(level, addr), PTEEmpty)
NewFrame(level, addr) ==
    Made("PFN::new", addr, SizeOf(level), AttrsEmpty,
         PFN_new_ok(level, addr), PTEEmpty)
\* PTE::new(frame, attrs) for a frame of the level at addr.
NewPTE(level, addr, attrs) ==
    Made("PTE::new", addr, SizeOf(level), attrs, TRUE,
         PTENew(addr, attrs, FrameBig(level)))

Forget ==
    /\ pc = "made"
    /\ pc' = "types"
    /\ last' = NoLast
    /\ UNCHANGED <<mem, reserved, mmio, cfg, boot_mem, overflow_checks, prev,
                   nmut>>

TypesNext ==
    \/ pc = "types" /\ \E addr \in TypeAddrs : NewV4KA(addr)
    \/ pc = "types" /\ \E addr \in TypeAddrs : NewP4KA(addr)
    \/ pc = "types" /\ \E level \in {1, 2, 3}, addr \in TypeAddrs :
          NewPage(level, addr)
    \/ pc = "types" /\ \E level \in {1, 2, 3}, addr \in TypeAddrs :
          NewFrame(level, addr)
    \/ pc = "types" /\ \E level \in {1, 2, 3}, attrs \in AllAttrs :
          \E addr \in Frames(level) : NewPTE(level, addr, attrs)
    \/ Forget

TypesSpec == TypesInit /\ [][TypesNext]_vars

(***************************************************************************)
(* The vocabulary of the properties.                                       *)
(***************************************************************************)
\* Every page of the address space a V4KA can name.  A lookup depends on
\* its address only through the table indices, so pages stand for all
\* addresses.
Pages == {a * P : a \in {b \in 0 .. (ADDR_SPACE \div P) - 1 : is_canonical(b * P)}}

\* Address a lies in the half-open range r, an end of 0 being the top of
\* the address space.
InRange(r, a) == r.start <= a /\ (r.end = 0 \/ a < r.end)

SharesAddress(r, s) == \E a \in Pages : InRange(r, a) /\ InRange(s, a)

SharesWithList(rs, r) == \E i \in 1 .. Len(rs) : SharesAddress(r, rs[i])

\* A call has returned or aborted, and `last` describes it.
Called(ops) == pc \in {"done", "aborted"} /\ last.op \in ops
Returned(ops) == pc = "done" /\ last.op \in ops

Errors == {"ErrReserved", "ErrPhysReserved", "ErrMmio", "Unmapped"}

LastRange == Rg(last.start, last.end)
LastPhysRange == Rg(last.pa, wrapping_add(last.pa, wrapping_sub(last.end, last.start)))

SameLookups(m1, m2) ==
    \A a \in Pages : Loader_lookup(m1, a) = Loader_lookup(m2, a)

\* C1: a map_region or unmap_range whose virtual range shares an address
\* with an entry of the reserved list returns an error, and the lookup of
\* every address is the same after the call as before it.
C1_ReservedOverlapRejected ==
    (Called({"map_region", "unmap_range"}) /\ SharesWithList(reserved, LastRange))
        => /\ last.res \in Errors
           /\ SameLookups(mem, last.pre)

\* An unmap_range of mapped pages of the loader image has returned.
C1_Witness ==
    /\ Returned({"unmap_range"})
    /\ SharesWithList(reserved, LastRange)
    /\ \A a \in Pages :
          InRange(LastRange, a) => Loader_lookup(mem, a).kind # "None"

\* C2: whatever calls were made since LoaderPageTable::new, the lookup of
\* every address inside a reserved range is what it was right after new.
C2_ReservedLookupsKept ==
    pc \in {"idle", "done"} =>
        \A i \in 1 .. Len(reserved) : \A a \in Pages :
            InRange(reserved[i], a)
                => Loader_lookup(mem, a) = Loader_lookup(boot_mem, a)

\* MaxMut accepted calls changed the tables around a mapped reserved page.
C2_Witness ==
    /\ pc = "idle" /\ nmut = MaxMut
    /\ ~SameLookups(mem, boot_mem)
    /\ \E i \in 1 .. Len(reserved) : \E a \in Pages :
          InRange(reserved[i], a) /\ Loader_lookup(mem, a).kind # "None"

PagesOf(r) == {a \in Pages : InRange(r, a)}

\* The tables and their levels are what they were before the call.
NoMutation == mem.tabs = last.pre.tabs /\ mem.kinds = last.pre.kinds

\* C3: a map_ram whose physical range [pa, pa + len) overlaps an entry of
\* the MMIO list returns an error and mutates nothing.
C3_PhysicalMmioRejected ==
    (Called({"map_ram"}) /\ SharesWithList(mmio, LastPhysRange))
        => last.res \in Errors /\ NoMutation

\* C4 as stated: map_region, map_ram and unmap_range are each rejected when
\* the virtual range overlaps an entry of the MMIO list.
C4_EveryOpRejectsMmio ==
    (Called({"map_region", "map_ram", "unmap_range"})
       /\ SharesWithList(mmio, LastRange))
        => last.res \in Errors

\* C4, amended: map_ram is rejected, without mutation, when its virtual
\* range overlaps an entry of the MMIO list; map_region does not consult
\* the MMIO list, so a map_region of such a range that stays clear of the
\* reserved list is not rejected, and an unmap_range of it can fail only
\* because a page is not mapped.
C4_OnlyMapRamRejectsMmio ==
    /\ (Called({"map_ram"}) /\ SharesWithList(mmio, LastRange))
          => last.res \in Errors /\ NoMutation
    /\ (Called({"map_region"}) /\ SharesWithList(mmio, LastRange)
          /\ ~SharesWithList(reserved, LastRange)
          /\ ~SharesWithList(reserved, LastPhysRange))
          => last.res \notin Errors
    /\ (Called({"unmap_range"}) /\ SharesWithList(mmio, LastRange)
          /\ ~SharesWithList(reserved, LastRange))
          => last.res \in {"Ok", "Unmapped"}

\* A map_ram into the MMIO window, clear of the reserved list, was refused.
C4_Witness ==
    /\ Returned({"map_ram"}) /\ last.res = "ErrMmio"
    /\ SharesWithList(mmio, LastRange)
    /\ ~SharesWithList(reserved, LastRange)

\* C5 as stated: a map_region or map_ram whose physical range overlaps an
\* entry of the reserved list returns an error and mutates nothing.
C5_PhysicalReservedIsError ==
    (Called({"map_region", "map_ram"})
       /\ SharesWithList(reserved, LastPhysRange))
        => last.res \in Errors /\ NoMutation

\* C5, amended: such a call is never accepted and mutates nothing; it
\* returns an error, or it aborts, and it aborts only when pa + len is not
\* a canonical address.
C5_PhysicalReservedNotMapped ==
    (Called({"map_region", "map_ram"})
       /\ SharesWithList(reserved, LastPhysRange))
        => /\ NoMutation
           /\ \/ last.res \in Errors
              \/ last.res = "panic" /\ ~is_canonical(LastPhysRange.end)

\* A map_region of a free virtual range onto the loader image was refused.
C5_Witness ==
    /\ Returned({"map_region"}) /\ last.res = "ErrPhysReserved"
    /\ ~SharesWithList(reserved, LastRange)
    /\ SharesWithList(reserved, LastPhysRange)

EntryKinds == {"Entry4K", "Entry2M", "Entry1G"}
EntrySize(kind) == IF kind = "Entry1G" THEN SIZE_1G
                   ELSE IF kind = "Entry2M" THEN SIZE_2M ELSE SIZE_4K

\* lookup(a) in m is an entry that translates a to pa with these Attrs.
LooksMapped(m, a, pa, attrs) ==
    LET e == Loader_lookup(m, a) IN
    /\ e.kind \in EntryKinds
    /\ PTE_phys_addr(e.pte) + (a % EntrySize(e.kind)) = pa
    /\ PTEAttrs(e.pte) = attrs

\* C6 (for requests with the readable bit, which the present bit follows):
\* after an accepted map_region, lookup of every address of the range is
\* an entry translating it to physical_base + (address - range.start)
\* with the Attrs requested.
C6_MapThenLookup ==
    (Returned({"map_region"}) /\ last.res = "Ok" /\ last.attrs.r)
        => \A a \in PagesOf(LastRange) :
              LooksMapped(mem, a, last.pa + (a - last.start), last.attrs)

\* What lookup shows of a page mapped by a call with these Attrs.
Reflects(m, a, pa, attrs) ==
    IF attrs.r THEN LooksMapped(m, a, pa, attrs)
    ELSE Loader_lookup(m, a).kind = "None"

\* C7: when the accepted map_region before this accepted map_region was of
\* the same range with other Attrs, lookup of every address of the range
\* reflects the Attrs and frame of this call only.
C7_LastWriteWins ==
    (Returned({"map_region"}) /\ last.res = "Ok" /\ prev.op = "map_region"
       /\ prev.start = last.start /\ prev.end = last.end
       /\ prev.attrs # last.attrs)
        => \A a \in PagesOf(LastRange) :
              Reflects(mem, a, last.pa + (a - last.start), last.attrs)

Levels == {1, 2, 3}

Aligned(va, pa, l) == va % SizeOf(l) = 0 /\ pa % SizeOf(l) = 0

\* The largest level whose page size satisfies fits(size) and to which va
\* and pa are aligned; 0 if there is none.
LargestLevel(va, pa, fits(_)) ==
    LET ok == {l \in Levels : fits(SizeOf(l)) /\ Aligned(va, pa, l)} IN
    IF ok = {} THEN 0 ELSE CHOOSE l \in ok : \A k \in ok : k <= l

\* A call of map_region or identity_map ran its loop, and `last` has it.
Looped == Called({"map_region", "map_ram", "identity_map"})

\* C8 as stated: each turn of the loop maps the largest page whose size
\* divides the remaining length and to which va and pa are aligned.
C8_LargestDividing ==
    Looped =>
        \A i \in 1 .. Len(last.steps) :
            LET s == last.steps[i]
                rem == wrapping_sub(s.end, s.va)
                Divides(size) == rem % size = 0
            IN  s.level = LargestLevel(s.va, s.pa, Divides)

\* C8, amended: each turn maps the largest page whose size does not exceed
\* the remaining length (it need not divide it) and to which va and pa are
\* aligned; it maps one page of that size, and the next turn starts that
\* size further in both address spaces, the last turn ending at the end of
\* the region.
C8_LargestNotExceeding ==
    Looped =>
        \A i \in 1 .. Len(last.steps) :
            LET s == last.steps[i]
                rem == wrapping_sub(s.end, s.va)
                NotExceeds(size) == size <= rem
                size == SizeOf(s.level)
            IN  /\ s.level = LargestLevel(s.va, s.pa, NotExceeds)
                /\ IF i < Len(last.steps) /\ last.steps[i + 1].turn > 1
                   THEN /\ last.steps[i + 1].va = wrapping_add(s.va, size)
                        /\ last.steps[i + 1].pa = s.pa + size
                        /\ last.steps[i + 1].end = s.end
                   ELSE last.res = "Ok" => wrapping_add(s.va, size) = s.end
                /\ (last.op # "identity_map" /\ s.turn = 1)
                      => s.va = last.start /\ s.pa = last.pa

\* A loop mapped a 2MiB page where the remaining length was not a multiple
\* of 2MiB, and went on with a smaller page.
C8_Witness ==
    /\ Returned({"map_region"}) /\ last.res = "Ok"
    /\ \E i \in 1 .. Len(last.steps) - 1 :
          /\ last.steps[i].level = 2
          /\ wrapping_sub(last.steps[i].end, last.steps[i].va) % SIZE_2M # 0
          /\ last.steps[i + 1].level = 1

\* The 1GiB-aligned addresses of a range.
GigaPagesOf(r) == {a \in PagesOf(r) : a % SIZE_1G = 0}

\* The PML3 slot of va as the PML4 of m gives it.
PML3EntryOf(m, va) ==
    LET n == PML4_next(m, ROOT, va) IN
    IF n.tag = "Some" THEN EntryAt(m, n.slot, va, SIZE_1G) ELSE PTEEmpty

\* post is pre after the identity mapping of the 1GiB-aligned region r:
\* one present huge PML3 entry per 1GiB, its frame the virtual address,
\* and no PML2 or PML1 among the tables allocated meanwhile.
OneLeafPerGiB(pre, post, r) ==
    /\ \A va \in GigaPagesOf(r) :
          LET e == PML3EntryOf(post, va) IN
          e.p /\ e.h /\ PTE_phys_addr(e) = va
    /\ \A slot \in Len(pre.tabs) + 1 .. Len(post.tabs) :
          post.kinds[slot] \notin {1, 2}

NothingMapped(m, r) ==
    \A a \in PagesOf(r) : PageTable_lookup(m, a).kind = "None"

GiBAligned(r) ==
    r.start # r.end /\ r.start % SIZE_1G = 0 /\ r.end % SIZE_1G = 0

\* C9: identity_map of a region whose start and end are 1GiB-aligned, in
\* tables that map nothing of it, leaves one present huge PML3 entry per
\* 1GiB, each with its virtual address as frame, and allocates no PML2 and
\* no PML1.  Both callers are covered: identity_map at boot, and a
\* map_region whose physical base is its virtual start, with the readable
\* Attrs every region of bldb::remap has.
C9_OneLeafPerGiB ==
    /\ (Called({"identity_map"}) /\ last.res = "Ok") =>
          \A i \in 1 .. Len(cfg.regions) :
              (GiBAligned(cfg.regions[i])
                 /\ NothingMapped(last.mids[i], cfg.regions[i]))
                  => OneLeafPerGiB(last.mids[i], last.mids[i + 1],
                                   cfg.regions[i])
    /\ (Returned({"map_region"}) /\ last.res = "Ok" /\ last.pa = last.start
          /\ last.attrs.r /\ GiBAligned(LastRange)
          /\ NothingMapped(last.pre, LastRange))
           => OneLeafPerGiB(last.pre, mem, LastRange)

\* identity_map has mapped a region of two 1GiB pages.
C9_Witness ==
    /\ pc = "mapped" /\ last.op = "identity_map"
    /\ \E i \in 1 .. Len(cfg.regions) :
          /\ GiBAligned(cfg.regions[i])
          /\ NothingMapped(last.mids[i], cfg.regions[i])
          /\ Cardinality(GigaPagesOf(cfg.regions[i])) = 2

\* Every page of r has a present leaf in m whose Attrs permit wanted.
AllCovered(m, r, wanted) ==
    \A a \in PagesOf(r) :
        LET e == PageTable_lookup(m, a) IN
        e.kind \in EntryKinds /\ permits(e.attrs, wanted)

\* C10: for a canonical range, is_region_mapped(range, wanted) is true if
\* every page of the range is covered by a present leaf whose Attrs permit
\* wanted, and false otherwise.
C10_MappedIffCovered ==
    (Called({"is_region_mapped"}) /\ is_canonical_range(last.start, last.end))
        => last.res = IF AllCovered(last.pre, LastRange, last.attrs)
                      THEN "true" ELSE "false"

\* has grants every access among read, write and execute that wanted requires.
Grants(has, wanted) ==
    /\ (wanted.r => has.r)
    /\ (wanted.w => has.w)
    /\ (AttrsX(wanted) => AttrsX(has))

\* The Attrs of the leaf that maps page a in m.
LeafAttrs(m, a) == PageTable_lookup(m, a).attrs
IsLeaf(m, a) == PageTable_lookup(m, a).kind \in EntryKinds

\* C11: for the Attrs `has` of every mapped page and the Attrs `wanted` of
\* an is_region_mapped call, has.permits(wanted) is true exactly when has
\* grants every access wanted requires among read, write and execute; and
\* is_region_mapped(range, Attrs::new_x()) is false when a page of the
\* range is mapped non-executable.
C11_PermitsIffGranted ==
    Called({"is_region_mapped"}) =>
        /\ \A a \in Pages :
              IsLeaf(last.pre, a) =>
                  (permits(LeafAttrs(last.pre, a), last.attrs)
                      <=> Grants(LeafAttrs(last.pre, a), last.attrs))
        /\ (/\ last.attrs = new_x
            /\ is_canonical_range(last.start, last.end)
            /\ \E a \in PagesOf(LastRange) :
                  IsLeaf(last.pre, a) /\ ~AttrsX(LeafAttrs(last.pre, a)))
              => last.res = "false"

\* The pages of r that no leaf maps in m.
Gaps(m, r) == {a \in PagesOf(r) : ~IsLeaf(m, a)}

\* C12: unmap_range returns Ok only if every page of the range was mapped
\* right before the call; a range clear of the reserved list with a page
\* that has no mapping gets the Unmapped error.
C12_UnmapOkOnlyIfMapped ==
    Called({"unmap_range"}) =>
        /\ last.res = "Ok" => Gaps(last.pre, LastRange) = {}
        /\ (Gaps(last.pre, LastRange) # {}
              /\ ~SharesWithList(reserved, LastRange))
              => last.res = "Unmapped"

\* C13: when map_region or unmap_range returns an error, every entry of
\* every table is what it was before the call; an unmap_range that fails
\* part-way has removed nothing.
C13_ErrorsMutateNothing ==
    (Called({"map_region", "unmap_range"}) /\ last.res \in Errors)
        => NoMutation

\* C14: after load_segment has returned Ok, every leaf that maps a page of
\* the segment's virtual range carries the kernel-nucleus marker.
C14_SegmentLeavesMarked ==
    (Returned({"load_segment"}) /\ last.res = "Ok")
        => \A a \in PagesOf(LastRange) :
              IsLeaf(mem, a) => LeafAttrs(mem, a).k

Followed(level, e) == IF level = 4 THEN e.p ELSE e.p /\ ~e.h
Pointers(m, slot, level) ==
    {e \in {m.tabs[slot][i] : i \in 0 .. Entries - 1} : Followed(level, e)}

\* e holds the page-aligned address of a page of the arena that was handed
\* out as a table of the level below.
ValidPointer(m, e, level) ==
    LET a == PTE_phys_addr(e) IN
    /\ InArena(a) /\ a % PAGE_SIZE = 0
    /\ TryWithAddr(a) = "Ok"
    /\ SlotOfAddr(a) \in 1 .. Len(m.tabs)
    /\ m.kinds[SlotOfAddr(a)] = level - 1

RECURSIVE TreeOk(_, _, _)
TreeOk(m, slot, level) ==
    \/ level = 1
    \/ \A e \in Pointers(m, slot, level) :
          /\ ValidPointer(m, e, level)
          /\ TreeOk(m, SlotOfAddr(PTE_phys_addr(e)), level - 1)

\* C16: every present non-leaf entry of every table reachable from the
\* root holds the address of an arena page handed out as a table of the
\* next level, so that descending through it passes the allocator's range
\* and alignment checks.
C16_TablesInArena ==
    Len(mem.tabs) >= 1 => TreeOk(mem, ROOT, 4)

\* A 4KiB page is mapped: the tree is four levels deep.
C16_Witness ==
    /\ pc = "idle" /\ nmut >= 1
    /\ \E a \in Pages : PageTable_lookup(mem, a).kind = "Entry4K"

\* Mapping a page of this level at va has to allocate a table in m.
NeedsTable(m, va, level) ==
    LET n4 == PML4_next(m, ROOT, va) IN
    IF n4.tag # "Some" THEN n4.tag = "None"
    ELSE IF level = 3 THEN FALSE
    ELSE LET e3 == EntryAt(m, n4.slot, va, SIZE_1G)
             n3 == PML3_next(m, n4.slot, va)
         IN  IF ~e3.p THEN TRUE
             ELSE IF n3.tag # "Some" \/ level = 2 THEN FALSE
             ELSE ~EntryAt(m, n3.slot, va, SIZE_2M).p

\* The call in `last` is a map_region or map_ram that the lists let
\* through, made when the arena was full, whose first page needs a table.
MapsWithoutRoom ==
    /\ Called({"map_region", "map_ram"})
    /\ Len(last.pre.tabs) = PAGE_ARENA_PAGES
    /\ last.start # last.end
    /\ ~SharesWithList(reserved, LastRange)
    /\ ~SharesWithList(reserved, LastPhysRange)
    /\ last.op = "map_ram" => ~SharesWithList(mmio, LastRange)
    /\ MapPageLevel(last.start, last.end, last.pa) # 0
    /\ NeedsTable(last.pre, last.start,
                  MapPageLevel(last.start, last.end, last.pa))

\* C17: a mapping request that needs a new table when every page of the
\* arena is taken aborts the process; it returns neither Ok nor an error.
C17_ExhaustionAborts ==
    MapsWithoutRoom => pc = "aborted" /\ last.res = "panic"

\* A well-formed request failed for want of a table and nothing else.
C17_Witness ==
    /\ MapsWithoutRoom /\ pc = "aborted"
    /\ is_canonical_range(last.start, last.end)
    /\ P4KA_ok(last.pa) /\ is_physical(LastPhysRange.end)
    /\ LastPhysRange.end > last.pa

\* C19: try_with_addr yields a pointer exactly when va is canonical, is
\* mapped and is aligned for T; otherwise it returns PtrNonCanon, Unmapped
\* or PtrAlign, for the first of the three tests that fails in that order;
\* the tables are not changed.
C19_TryWithAddrChecks ==
    Called({"try_with_addr"}) =>
        /\ last.res =
              IF ~is_canonical(last.start) THEN "PtrNonCanon"
              ELSE IF ~IsLeaf(last.pre, last.start) THEN "Unmapped"
              ELSE IF last.start % last.pa # 0 THEN "PtrAlign"
              ELSE "Ptr"
        /\ mem = last.pre

\* A mapped address that is not aligned for T was refused.
C19_Witness ==
    /\ Returned({"try_with_addr"})
    /\ last.start % last.pa # 0
    /\ last.res = "PtrAlign"

\* A constructor has been called with an address and a page size.
Constructed(ops) == pc = "made" /\ last.op \in ops

\* C18: a typed virtual page address of a size is constructed exactly when
\* the address is canonical and aligned to the size, a typed physical one
\* exactly when it is below the physical width and aligned to the size;
\* otherwise construction aborts.
C18_ConstructedIffValid ==
    /\ Constructed({"V4KA::new", "Page::new"}) =>
          (last.res = "Ok"
              <=> is_canonical(last.start) /\ last.start % last.pa = 0)
    /\ Constructed({"P4KA::new", "PFN::new"}) =>
          (last.res = "Ok"
              <=> is_physical(last.start) /\ last.start % last.pa = 0)

\* The field of the entry at each bit position (bitstruct of PTE); the
\* frame-number field is bits 12 to 50.
PTEBit(pte, i) ==
    CASE i = 0 -> pte.p [] i = 1 -> pte.w [] i = 2 -> pte.u
      [] i = 3 -> pte.wt [] i = 4 -> pte.nc [] i = 5 -> pte.a
      [] i = 6 -> pte.d [] i = 7 -> pte.h [] i = 8 -> pte.g
      [] i = 9 -> pte.i0 [] i = 10 -> pte.i1 [] i = 11 -> pte.k
      [] i = 63 -> pte.nx

\* C20: the entry PTE::new builds for a frame and an Attrs has bit 0 =
\* readable, bit 1 = writable, bits 3 and 4 = not cacheable, bit 7 set iff
\* the frame is 2MiB or 1GiB, bit 11 = kernel marker, bits 12-50 = frame
\* address >> 12, bit 63 = not executable, bits 2, 5, 6, 8, 9, 10 clear.
C20_LeafBitPattern ==
    (Constructed({"PTE::new"}) /\ last.res = "Ok") =>
        /\ PTEBit(last.pte, 0) = last.attrs.r
        /\ PTEBit(last.pte, 1) = last.attrs.w
        /\ PTEBit(last.pte, 3) = ~AttrsC(last.attrs)
        /\ PTEBit(last.pte, 4) = ~AttrsC(last.attrs)
        /\ PTEBit(last.pte, 7) = (last.pa \in {SIZE_2M, SIZE_1G})
        /\ PTEBit(last.pte, 11) = last.attrs.k
        /\ last.pte.pfn = last.start \div (2 ^ 12)
        /\ PTEBit(last.pte, 63) = ~AttrsX(last.attrs)
        /\ \A i \in {2, 5, 6, 8, 9, 10} : ~PTEBit(last.pte, i)

\* The entry of a 1GiB frame for Attrs with every bit set.
C20_Witness ==
    /\ Constructed({"PTE::new"}) /\ last.res = "Ok"
    /\ last.pa = SIZE_1G /\ last.start # 0
    /\ \A f \in {"r", "w", "nc", "g", "k", "nx"} : last.attrs[f]

\* A half-open range of at least one address, an end of 0 being the top.
NonEmpty(r) == r.start # r.end /\ (r.start < r.end \/ r.end = 0)
AllNonEmpty(rs) == \A i \in 1 .. Len(rs) : NonEmpty(rs[i])
ListEntries == {reserved[i] : i \in 1 .. Len(reserved)}
                   \cup {mmio[i] : i \in 1 .. Len(mmio)}

\* C21: for a non-empty request range and a non-empty listed range, the
\* overlap test is true exactly when the two share an address; so a call
\* reports the reserved (map_region, unmap_range) or MMIO (map_ram) overlap
\* exactly when the request shares an address with a range of that list,
\* and a request that only abuts a listed range is not reported.
C21_OverlapsIffShared ==
    (Called({"map_region", "unmap_range", "map_ram"}) /\ NonEmpty(LastRange))
        => /\ \A e \in ListEntries :
                 NonEmpty(e) => (overlaps(<<e>>, last.start, last.end)
                                    <=> SharesAddress(LastRange, e))
           /\ (last.op # "map_ram" /\ AllNonEmpty(reserved))
                 => (last.res = "ErrReserved"
                        <=> SharesWithList(reserved, LastRange))
           /\ (last.op = "map_ram" /\ AllNonEmpty(mmio))
                 => (last.res = "ErrMmio" <=> SharesWithList(mmio, LastRange))

\* A map_region of the page that starts where a reserved range ends was
\* accepted.
C21_Witness ==
    /\ Returned({"map_region"}) /\ last.res = "Ok"
    /\ \E i \in 1 .. Len(reserved) :
          NonEmpty(reserved[i]) /\ reserved[i].end = last.start

\* Entries of the reserved list whose end equals their start.
EmptyEntries == {e \in ListEntries : e.start = e.end /\ e.start # 0}

\* C22 as stated: with a reserved entry whose end equals its start in the
\* list, every map_region and unmap_range is rejected.
C22_EmptyEntryRejectsAll ==
    (Called({"map_region", "unmap_range"}) /\ EmptyEntries # {})
        => last.res = "ErrReserved"

\* C22: a reserved entry whose end equals its start s (s not 0) becomes an
\* inclusive range that contains no address, and the overlap test is true
\* for it exactly when the request range contains s: a map_region or
\* unmap_range of a non-empty range is rejected as reserved exactly when
\* the range contains the start of such an entry or shares an address with
\* another entry.
C22_EmptyEntryReservesItsStart ==
    (Called({"map_region", "unmap_range"}) /\ NonEmpty(LastRange))
        => /\ \A e \in EmptyEntries :
                 overlaps(<<e>>, last.start, last.end)
                     <=> InRange(LastRange, e.start)
           /\ last.res = "ErrReserved"
                 <=> \/ \E e \in EmptyEntries : InRange(LastRange, e.start)
                     \/ SharesWithList(reserved, LastRange)

\* With an empty reserved entry in the list, a request over its start was
\* rejected.
C22_Witness ==
    /\ Returned({"map_region", "unmap_range"})
    /\ last.res = "ErrReserved"
    /\ ~SharesWithList(reserved, LastRange)
    /\ \E e \in EmptyEntries : InRange(LastRange, e.start)

\* The steps of the last call that mapped a page smaller than the leaf
\* that translated its address before the call.
StepsUnderLeaf ==
    {i \in 1 .. Len(last.steps) :
        LET e == Loader_lookup(last.pre, last.steps[i].va) IN
        /\ e.kind \in EntryKinds
        /\ EntrySize(e.kind) > SizeOf(last.steps[i].level)}

\* C23: when an accepted map_region maps a 4KiB or 2MiB page at an address
\* that a present 2MiB or 1GiB leaf covered, lookup of the page afterwards
\* shows the frame and Attrs of the request, not the earlier leaf.
C23_MapOverwritesLeaf ==
    (Returned({"map_region"}) /\ last.res = "Ok")
        => \A i \in StepsUnderLeaf :
              Reflects(mem, last.steps[i].va, last.steps[i].pa, last.attrs)

\* The PML2 slot of va as the tables of m give it.
PML2EntryOf(m, va) ==
    LET n4 == PML4_next(m, ROOT, va) IN
    IF n4.tag # "Some" THEN PTEEmpty
    ELSE LET n3 == PML3_next(m, n4.slot, va) IN
         IF n3.tag # "Some" THEN PTEEmpty
         ELSE EntryAt(m, n3.slot, va, SIZE_2M)

\* C24: after a map_region or unmap_range has returned, with Ok or with an
\* error, lookup of every address outside the requested range returns what
\* it returned before the call.
C24_OutsideRangeKept ==
    Returned({"map_region", "unmap_range"})
        => \A a \in Pages :
              ~InRange(LastRange, a)
                  => Loader_lookup(mem, a) = Loader_lookup(last.pre, a)

\* The call replaced or cleared a PML2 entry that pointed to a PML1, while
\* pages outside the range were mapped.
C24_Witness ==
    /\ Returned({"map_region", "unmap_range"})
    /\ \E a \in PagesOf(LastRange) :
          /\ Followed(2, PML2EntryOf(last.pre, a))
          /\ ~Followed(2, PML2EntryOf(mem, a))
    /\ \E b \in Pages :
          ~InRange(LastRange, b) /\ Loader_lookup(mem, b).kind # "None"

\* The present entries of the table in slot, and whether its level follows
\* them to a next table (the PML1 follows none).
PresentEntries(m, slot) ==
    {e \in {m.tabs[slot][i] : i \in 0 .. Entries - 1} : e.p}
IsPointer(m, slot, e) == m.kinds[slot] \in {2, 3, 4} /\ Followed(m.kinds[slot], e)

\* C25: in every table, every present entry that points to a next-level
\* table has present, writable and user set and no-execute, cache-disable
\* and write-through clear, and every present leaf entry has user clear.
C25_InteriorPermissions ==
    \A slot \in 1 .. Len(mem.tabs) : \A e \in PresentEntries(mem, slot) :
        IF IsPointer(mem, slot, e)
        THEN e.p /\ e.w /\ e.u /\ ~e.nx /\ ~e.nc /\ ~e.wt
        ELSE ~e.u

\* After MaxMut accepted map and unmap calls a PML2 holds a pointer to a
\* PML1 beside a 2MiB leaf, and a PML1 holds a leaf.
C25_Witness ==
    /\ pc = "idle" /\ nmut = MaxMut
    /\ \E slot \in 1 .. Len(mem.tabs) :
          /\ mem.kinds[slot] = 2
          /\ \E e \in PresentEntries(mem, slot) : IsPointer(mem, slot, e)
          /\ \E e \in PresentEntries(mem, slot) : e.h
    /\ \E slot \in 1 .. Len(mem.tabs) :
          mem.kinds[slot] = 1 /\ PresentEntries(mem, slot) # {}

\* Where the tables of m hold a pointer to a next table, and the arena
\* page each pointer names.
PointerSites(m) ==
    {site \in (1 .. Len(m.tabs)) \X (0 .. Entries - 1) :
        IsPointer(m, site[1], m.tabs[site[1]][site[2]])}
Target(m, site) == SlotOfAddr(PTE_phys_addr(m.tabs[site[1]][site[2]]))

\* The pages handed out that no pointer names: tables made unreachable.
Orphans(m) ==
    {slot \in 2 .. Len(m.tabs) :
        m.kinds[slot] # 0 /\ \A site \in PointerSites(m) : Target(m, site) # slot}

\* C26: over every call, the pages handed out before it stay handed out as
\* the tables they were; no two pointer entries name the same page; and a
\* pointer entry written by the call names a page handed out during the
\* call, never a page handed out before it (so no orphaned table is used
\* again).
C26_NeverReclaims ==
    /\ Len(last.pre.tabs) <= Len(mem.tabs)
    /\ \A slot \in 1 .. Len(last.pre.tabs) :
          mem.kinds[slot] = last.pre.kinds[slot]
    /\ \A s, t \in PointerSites(mem) :
          s # t => Target(mem, s) # Target(mem, t)
    /\ last.op # "none" =>
          \A s \in PointerSites(mem) :
              \/ s \in PointerSites(last.pre)
                    /\ Target(last.pre, s) = Target(mem, s)
              \/ Target(mem, s) > Len(last.pre.tabs)

\* A call took new pages from the arena while a table orphaned earlier
\* was at hand.
C26_Witness ==
    /\ Returned({"map_region", "map_ram", "load_segment"})
    /\ Len(mem.tabs) > Len(last.pre.tabs)
    /\ Orphans(last.pre) # {}
    /\ Orphans(last.pre) \subseteq Orphans(mem)

(***************************************************************************)
(* A session that repeats one request: repl::vm::map of a range, then      *)
(* repl::vm::unmap of that range, then map of it again with the same Attrs *)
(* and any physical base, for MaxCycleCalls calls.  prev holds the request *)
(* accepted last, nmut counts the calls.                                   *)
(***************************************************************************)
\* bldb::init has returned: the regions are identity mapped and the
\* LoaderPageTable holds the lists.
CycleInit ==
    /\ cfg \in Configs
    /\ mem = PageTable_identity_map(Spend(TableNew(NoMem, 4), cfg.spent),
                                    cfg.regions).m
    /\ reserved = cfg.reserved /\ mmio = cfg.mmio
    /\ boot_mem = mem
    /\ overflow_checks = FALSE
    /\ pc = "cycle_map"
    /\ last = NoLast
    /\ prev = NoPrev
    /\ nmut = 0

\* What pc becomes after a call of the cycle that returned res.
CyclePc(res, then) ==
    IF res = "panic" THEN "aborted" ELSE IF res = "Ok" THEN then ELSE "stopped"

\* LoaderPageTable::map_region(range, attrs, pa): the first request, or
\* the request repeated.
CycleMap(rg, attrs, pa) ==
    /\ pc = "cycle_map" /\ nmut < MaxCycleCalls
    /\ prev.op = "none" \/ (rg = Rg(prev.start, prev.end) /\ attrs = prev.attrs)
    /\ \E r \in {Loader_map_region(mem, reserved, rg.start, rg.end, attrs,
                                    pa)} :
          /\ mem' = r.m
          /\ last' = [NoLast EXCEPT !.op = "map_region", !.start = rg.start,
                         !.end = rg.end, !.attrs = attrs, !.pa = pa,
                         !.res = r.res, !.pre = mem, !.steps = r.steps]
          /\ pc' = CyclePc(r.res, "cycle_unmap")
          /\ prev' = IF r.res = "Ok"
                     THEN [op |-> "map_region", start |-> rg.start,
                           end |-> rg.end, attrs |-> attrs, pa |-> pa]
                     ELSE prev
    /\ nmut' = nmut + 1
    /\ UNCHANGED <<reserved, mmio, cfg, boot_mem, overflow_checks>>

\* LoaderPageTable::unmap_range(range) of the range just mapped.
CycleUnmap ==
    /\ pc = "cycle_unmap" /\ nmut < MaxCycleCalls
    /\ \E r \in {Loader_unmap_range(mem, reserved, prev.start, prev.end)} :
          /\ mem' = r.m
          /\ last' = [NoLast EXCEPT !.op = "unmap_range",
                         !.start = prev.start, !.end = prev.end,
                         !.res = r.res, !.pre = mem]
          /\ pc' = CyclePc(r.res, "cycle_map")
    /\ nmut' = nmut + 1
    /\ UNCHANGED <<reserved, mmio, cfg, boot_mem, overflow_checks, prev>>

CycleNext ==
    \/ \E rg \in Ranges, attrs \in MapRegionAttrs :
          \E pa \in PhysFor(rg) : CycleMap(rg, attrs, pa)
    \/ CycleUnmap

CycleSpec == CycleInit /\ [][CycleNext]_vars

\* C27: in a cycle of map_region and unmap_range of one range, every
\* map_region after the first returns without having taken a page from the
\* arena, whatever its physical base, and so is never aborted for want of
\* a page.
C27_CycleAllocatesOnce ==
    (last.op = "map_region" /\ nmut > 1)
        => Len(mem.tabs) = Len(last.pre.tabs) /\ last.res # "panic"

\* C28: when an accepted map_region with readable Attrs is followed at
\* once by unmap_range of the same range, the unmap_range returns Ok and
\* lookup of every address of the range returns nothing afterwards.
C28_MapUnmapRoundTrip ==
    (last.op = "unmap_range" /\ prev.op = "map_region" /\ prev.attrs.r)
        => /\ last.res = "Ok"
           /\ \A a \in PagesOf(LastRange) :
                 Loader_lookup(mem, a).kind = "None"

\* No loop of the address space takes more turns than it has pages.
MaxTurns == ADDR_SPACE \div PAGE_SIZE

\* The cursor positions of the loop of map_region and the page size it
\* chooses at each, as long as a size applies and turns are left.  Level 0
\* marks the "bad page size" abort, level -1 a loop that is still running
\* after MaxTurns turns.
RECURSIVE MapWalk(_, _, _, _)
MapWalk(start, end, pa, turns) ==
    IF start = end THEN <<>>
    ELSE IF turns = 0 THEN <<[va |-> start, level |-> -1]>>
    ELSE LET level == MapPageLevel(start, end, pa) IN
         IF level = 0 THEN <<[va |-> start, level |-> 0]>>
         ELSE <<[va |-> start, level |-> level]>>
                \o MapWalk(wrapping_add(start, SizeOf(level)), end,
                           pa + SizeOf(level), turns - 1)

\* The same for the loop of unmap_range, as long as pages are mapped.
RECURSIVE UnmapWalk(_, _, _)
UnmapWalk(start, end, turns) ==
    IF start = end THEN <<>>
    ELSE IF turns = 0 THEN <<[va |-> start, level |-> -1]>>
    ELSE LET level == UnmapPageLevel(start, end) IN
         IF level = 0 THEN <<[va |-> start, level |-> 0]>>
         ELSE <<[va |-> start, level |-> level]>>
                \o UnmapWalk(wrapping_add(start, SizeOf(level)), end,
                             turns - 1)

\* The pages of walk w follow each other from start to end, each of a
\* size that applies and none reaching past end (an end of 0 is the top).
TilesRange(w, start, end) ==
    /\ \A i \in 1 .. Len(w) :
          /\ w[i].level \in Levels
          /\ w[i].va = IF i = 1 THEN start
                       ELSE w[i - 1].va + SizeOf(w[i - 1].level)
          /\ w[i].va + SizeOf(w[i].level)
                <= (IF end = 0 THEN ADDR_SPACE ELSE end)
    /\ start # end =>
          /\ Len(w) >= 1
          /\ wrapping_add(w[Len(w)].va, SizeOf(w[Len(w)].level)) = end

\* C29: for a canonical range of 4KiB-aligned addresses, an end of 0
\* included, and a 4KiB-aligned physical base, the loops of map_region and
\* unmap_range choose a page size at every cursor position (never "bad
\* page size"), no page reaches past the end, and the cursor arrives at
\* the end; the pages an accepted map_region mapped are those pages.
C29_LoopsReachEnd ==
    (/\ Called({"map_region", "unmap_range"})
     /\ is_canonical_range(last.start, last.end)
     /\ last.start % SIZE_4K = 0 /\ last.end % SIZE_4K = 0
     /\ last.pa % SIZE_4K = 0)
        => /\ TilesRange(MapWalk(last.start, last.end, last.pa, MaxTurns),
                         last.start, last.end)
           /\ TilesRange(UnmapWalk(last.start, last.end, MaxTurns),
                         last.start, last.end)
           /\ (last.op = "map_region" /\ last.res = "Ok")
                 => [i \in 1 .. Len(last.steps) |->
                        [va |-> last.steps[i].va,
                         level |-> last.steps[i].level]]
                      = MapWalk(last.start, last.end, last.pa, MaxTurns)

\* An accepted map_region of a range that ends at the top of the address
\* space: the cursor wrapped to 0 after its last page.
C29_Witness ==
    /\ Returned({"map_region"}) /\ last.res = "Ok"
    /\ last.end = 0 /\ last.start # 0 /\ Len(last.steps) >= 1
    /\ wrapping_add(last.steps[Len(last.steps)].va,
                    SizeOf(last.steps[Len(last.steps)].level)) = 0

\* C30: is_region_mapped of a canonical upper-half region whose end is 0
\* returns, and returns true exactly when every page from its start up to
\* the top of the address space is covered by a leaf whose Attrs permit
\* the Attrs asked for.
C30_MappedToTheTop ==
    (Called({"is_region_mapped"}) /\ last.end = 0 /\ HI_CANON_INF < last.start)
        => /\ pc = "done" /\ last.res \in {"true", "false"}
           /\ last.res = "true" <=> AllCovered(last.pre, LastRange, last.attrs)

====
